---------------------------- MODULE Spec2Model ----------------------------
(***************************************************************************)
(* Model of src/app.py, the SMARTFIT AI Streamlit fitness tracker.         *)
(*                                                                         *)
(* The script is re-run from its first line on every user interaction      *)
(* (one "computation cycle").  The model keeps the widget values, the      *)
(* files the script reads and writes, and the position of the running      *)
(* script; one action per block of the script.                             *)
(*                                                                         *)
(* Python floats are IEEE-754 binary64.  They are modelled bit-exactly:    *)
(* a float is a 53-bit mantissa (a natural number kept as base-2^15 limbs, *)
(* least significant first) and a binary exponent, and every division and  *)
(* multiplication rounds to nearest, ties to even, as the hardware does.   *)
(***************************************************************************)
EXTENDS Integers, Sequences, FiniteSets, TLC

(***************************************************************************)
(* Natural numbers of arbitrary size: sequences of limbs, least            *)
(* significant first, no leading zero limb; <<>> is 0.                     *)
(*                                                                         *)
(* The operators are written so that every intermediate result is computed *)
(* once: Let(x, F) computes x and then F of that value.                    *)
(***************************************************************************)
Word == [bits |-> 15, base |-> 32768]
LimbBits == Word.bits
LimbBase == Word.base

Let(x, F(_)) == CHOOSE r \in {F(v) : v \in {x}} : TRUE

Max(S) == CHOOSE x \in S : \A y \in S : y <= x

Limb(a, i) == IF i >= 1 /\ i <= Len(a) THEN a[i] ELSE 0

\* the limbs f[1..n] without leading zero limbs
Trimmed(f, n) == SubSeq(f, 1, Max({0} \cup {i \in 1..n : f[i] # 0}))

\* n < 2^31
BigOf(n) == Trimmed(<<n % LimbBase, (n \div LimbBase) % LimbBase, n \div (LimbBase * LimbBase)>>, 3)

\* a < 2^31
BigToInt(a) == Limb(a, 1) + LimbBase * (Limb(a, 2) + LimbBase * Limb(a, 3))

\* the number of bits of n, 0 <= n < LimbBase
SmallBitLen(n) == CHOOSE k \in 0..LimbBits : n < 2^k /\ (k = 0 \/ n >= 2^(k - 1))

BitLen(a) == IF a = <<>> THEN 0 ELSE LimbBits * (Len(a) - 1) + SmallBitLen(a[Len(a)])

\* -1, 0, 1 as a < b, a = b, a > b
BigCmp(a, b) ==
    IF Len(a) < Len(b) THEN -1
    ELSE IF Len(a) > Len(b) THEN 1
    ELSE IF a = b THEN 0
    ELSE IF \E i \in 1..Len(a) : a[i] < b[i] /\ \A j \in (i + 1)..Len(a) : a[j] = b[j]
         THEN -1 ELSE 1

\* The carry into limb i of the limb sums s is decided without a loop: some lower
\* limb sum overflows and every limb sum between it and i is all ones.
CarryIn(s, i) ==
    IF \E j \in 1..(i - 1) : s[j] >= LimbBase /\ \A k \in (j + 1)..(i - 1) : s[k] = LimbBase - 1
    THEN 1 ELSE 0

Carried(s) ==
    Trimmed([i \in 1..(Len(s) + 1) |->
                IF i <= Len(s) THEN (s[i] + CarryIn(s, i)) % LimbBase ELSE CarryIn(s, i)],
            Len(s) + 1)

\* a + b
BigAdd(a, b) ==
    Let(SubSeq([i \in 1..Max({Len(a), Len(b)}) |-> Limb(a, i) + Limb(b, i)],
               1, Max({Len(a), Len(b)})),
        Carried)

\* the borrow into limb i of the limb differences s, likewise
BorrowIn(s, i) ==
    IF \E j \in 1..(i - 1) : s[j] < 0 /\ \A k \in (j + 1)..(i - 1) : s[k] = 0
    THEN 1 ELSE 0

Borrowed(s) ==
    Trimmed([i \in 1..Len(s) |-> (s[i] - BorrowIn(s, i) + LimbBase) % LimbBase], Len(s))

\* a - b, for a >= b
BigSub(a, b) == Let(SubSeq([i \in 1..Len(a) |-> a[i] - Limb(b, i)], 1, Len(a)), Borrowed)

\* a * k, 0 <= k < LimbBase: the low halves of the limb products plus the high
\* halves one limb up
BigMulSmall(a, k) ==
    Let(SubSeq([i \in 1..Len(a) |-> (a[i] * k) % LimbBase], 1, Len(a)),
        LAMBDA lo :
          Let(<<0>> \o [i \in 1..Len(a) |-> (a[i] * k) \div LimbBase],
              LAMBDA hi : BigAdd(lo, hi)))

\* a * LimbBase^n
ShiftLimbs(a, n) == IF a = <<>> THEN a ELSE [i \in 1..n |-> 0] \o a

RECURSIVE MulFrom(_, _, _, _)
MulFrom(a, b, j, acc) ==
    IF j > Len(b) THEN acc
    ELSE Let(BigMulSmall(a, b[j]),
             LAMBDA p :
               Let(ShiftLimbs(p, j - 1),
                   LAMBDA sp :
                     Let(BigAdd(acc, sp), LAMBDA acc2 : MulFrom(a, b, j + 1, acc2))))

\* a * b
BigMul(a, b) == MulFrom(a, b, 1, <<>>)

\* a * 2^n
BigShl(a, n) ==
    IF n % LimbBits = 0 THEN ShiftLimbs(a, n \div LimbBits)
    ELSE Let(BigMulSmall(a, 2^(n % LimbBits)), LAMBDA p : ShiftLimbs(p, n \div LimbBits))

\* the largest q' <= q with d * q' <= r, and the product
RECURSIVE FixDigit(_, _, _)
FixDigit(r, d, q) ==
    Let(BigMulSmall(d, q),
        LAMBDA p : IF BigCmp(p, r) = 1 THEN FixDigit(r, d, q - 1) ELSE [q |-> q, p |-> p])

\* one digit of a long division: r \div d, for r < d * LimbBase and d with its top
\* bit set in its top limb; the estimate from the top limbs is at most 2 too large
QuoDigit(r, d) ==
    IF BigCmp(r, d) = -1 THEN [q |-> 0, p |-> <<>>]
    ELSE Let((Limb(r, Len(d) + 1) * LimbBase + Limb(r, Len(d))) \div d[Len(d)],
             LAMBDA est : FixDigit(r, d, IF est > LimbBase - 1 THEN LimbBase - 1 ELSE est))

RECURSIVE DivFrom(_, _, _, _, _)
DivFrom(a, d, i, r, quo) ==
    IF i = 0 THEN [quo |-> quo, rem |-> r]
    ELSE Let(Trimmed(<<a[i]>> \o r, Len(r) + 1),
             LAMBDA r1 :
               Let(QuoDigit(r1, d),
                   LAMBDA qd :
                     Let(BigSub(r1, qd.p),
                         LAMBDA r2 : DivFrom(a, d, i - 1, r2, <<qd.q>> \o quo))))

\* a1 \div d1 and a1 % d1, for d1 with its top bit set in its top limb
DivNormal(a1, d1) ==
    IF Len(a1) < Len(d1) THEN [quo |-> <<>>, rem |-> a1, den |-> d1]
    ELSE Let(DivFrom(a1, d1, Len(a1) - Len(d1) + 1,
                     SubSeq(a1, Len(a1) - Len(d1) + 2, Len(a1)), <<>>),
             LAMBDA x : [quo |-> Trimmed(x.quo, Len(x.quo)), rem |-> x.rem, den |-> d1])

\* a \div d and a % d, for d > 0.  Both are first scaled by the power of two that
\* sets the top bit of d's top limb; rem is the remainder of the scaled division
\* and den the scaled divisor.
BigDivMod(a, d) ==
    Let((LimbBits - (BitLen(d) % LimbBits)) % LimbBits,
        LAMBDA s :
          Let(BigShl(a, s),
              LAMBDA a1 : Let(BigShl(d, s), LAMBDA d1 : DivNormal(a1, d1))))

IsOdd(a) == a # <<>> /\ a[1] % 2 = 1

\* the quotient dm rounded to nearest, ties to even
RoundedBy(dm, half) ==
    IF half = 1 \/ (half = 0 /\ IsOdd(dm.quo)) THEN BigAdd(dm.quo, <<1>>) ELSE dm.quo

Rounded(dm) ==
    Let(BigMulSmall(dm.rem, 2),
        LAMBDA twice : Let(BigCmp(twice, dm.den), LAMBDA half : RoundedBy(dm, half)))

\* n / d rounded to nearest, ties to even
BigRoundDiv(n, d) == Let(BigDivMod(n, d), Rounded)

(***************************************************************************)
(* IEEE-754 binary64, non-negative finite values.  A float is m * 2^e with *)
(* m = 0 or 2^52 <= m < 2^53.                                              *)
(***************************************************************************)
Binary64 == [precision |-> 53]
Precision == Binary64.precision

FZero == [m |-> <<>>, e |-> 0]

\* the float nearest to (na / da) * 2^e, where na / da is in [2^52, 2^54)
RoundScaled(na, da, e) ==
    Let(Let(BigShl(da, Precision), LAMBDA lim : BigCmp(na, lim) >= 0),
        LAMBDA big :
          Let(IF big THEN BigMulSmall(da, 2) ELSE da,
              LAMBDA db :
                Let(BigRoundDiv(na, db),
                    LAMBDA q :
                      IF BitLen(q) > Precision
                      THEN [m |-> BigShl(<<1>>, Precision - 1), e |-> e + (IF big THEN 1 ELSE 0) + 1]
                      ELSE [m |-> q, e |-> e + (IF big THEN 1 ELSE 0)])))

\* the float nearest to (n / d) * 2^x, for d > 0
RoundRat(n, d, x) ==
    IF n = <<>> THEN FZero
    ELSE Let(Precision + BitLen(d) - BitLen(n),
             LAMBDA sh :
               IF sh >= 0
               THEN Let(BigShl(n, sh), LAMBDA na : RoundScaled(na, d, x - sh))
               ELSE Let(BigShl(d, -sh), LAMBDA da : RoundScaled(n, da, x - sh)))

\* float(n), 0 <= n < 2^31: exact
FromInt(n) ==
    IF n = 0 THEN FZero
    ELSE Let(BigOf(n),
             LAMBDA b : [m |-> BigShl(b, Precision - BitLen(b)), e |-> BitLen(b) - Precision])

\* a / b, b # 0
FDiv(a, b) == RoundRat(a.m, b.m, a.e - b.e)

\* a * b
FMul(a, b) == Let(BigMul(a.m, b.m), LAMBDA p : RoundRat(p, <<1>>, a.e + b.e))

\* -1, 0, 1 as a < b, a = b, a > b
FCmp(a, b) ==
    IF a.m = <<>> THEN (IF b.m = <<>> THEN 0 ELSE -1)
    ELSE IF b.m = <<>> THEN 1
    ELSE IF a.e < b.e THEN -1
    ELSE IF a.e > b.e THEN 1
    ELSE BigCmp(a.m, b.m)

FLt(a, b) == FCmp(a, b) = -1

FLe(a, b) == FCmp(a, b) <= 0

\* f"{v:.2f}": the decimal with two places nearest to v (ties to even, v being a
\* binary fraction), as its number of hundredths; v < 2^31 / 100
Fmt2(v) ==
    Let(BigMulSmall(v.m, 100),
        LAMBDA c :
          IF v.e >= 0 THEN Let(BigShl(c, v.e), BigToInt)
          ELSE Let(BigShl(<<1>>, -v.e), LAMBDA d : Let(BigRoundDiv(c, d), BigToInt)))

(***************************************************************************)
(* Python values.  A number is a float [m, e]; the int 0 the script        *)
(* returns in two places prints and compares as the float 0.0 and is kept  *)
(* as FZero.  A raised exception is [raised |-> its name].                 *)
(***************************************************************************)
ZeroDivisionError == [raised |-> "ZeroDivisionError"]

IsRaised(x) == "raised" \in DOMAIN x

\* a / b and a * b on floats; an exception in an operand propagates
Divide(a, b) ==
    IF IsRaised(a) THEN a
    ELSE IF IsRaised(b) THEN b
    ELSE IF b.m = <<>> THEN ZeroDivisionError
    ELSE FDiv(a, b)

PyTrueDiv(x, y) == Let(x, LAMBDA a : Let(y, LAMBDA b : Divide(a, b)))

Multiply(a, b) ==
    IF IsRaised(a) THEN a
    ELSE IF IsRaised(b) THEN b
    ELSE FMul(a, b)

PyMul(x, y) == Let(x, LAMBDA a : Let(y, LAMBDA b : Multiply(a, b)))

\* n / 2 as a float, exactly
FromHalves(n) == Let(FromInt(n), LAMBDA f : [m |-> f.m, e |-> f.e - 1])

(***************************************************************************)
(* The widgets of the sidebar and their default values.                    *)
(***************************************************************************)
WidgetNames == {"age", "gender", "height", "weight", "running_time", "running_speed",
                "distance", "heart_rate", "goal_calories", "goal_steps", "steps_taken"}

DefaultWidgets ==
    [age |-> 25, gender |-> "Female", height |-> 170, weight |-> 70,
     running_time |-> 30, running_speed |-> 10, distance |-> 5, heart_rate |-> 80,
     goal_calories |-> 500, goal_steps |-> 5000, steps_taken |-> 2000]

\* the range each widget offers
WidgetDomain ==
    [age |-> 10..100, gender |-> {"Female", "Male"}, height |-> 100..250,
     weight |-> 30..150, running_time |-> 0..120, running_speed |-> 0..40,
     distance |-> 0..50, heart_rate |-> 50..200, goal_calories |-> 0..5000,
     goal_steps |-> 0..50000, steps_taken |-> 0..50000]

(***************************************************************************)
(* The prediction functions.  The script's functions read the widget       *)
(* values as globals; here they are parameters.                            *)
(***************************************************************************)

\* The two pickled artifacts are opaque to the script.  The scaler's output is kept as
\* a value tagged "scaled" that remembers the vector it was computed from; the
\* regression model is stood for by a fixed linear form with pairwise distinct
\* weights (so that it tells the order of the features apart), in tenths.
ModelWeights == <<2, 50, 1, 3, 7, 5, 11, 4>>

ScalerTransform(v) == [kind |-> "scaled", of |-> v]

RECURSIVE Dot(_, _, _)
Dot(a, b, i) == IF i = 0 THEN 0 ELSE a[i] * b[i] + Dot(a, b, i - 1)

ModelPredict(x) ==
    Let(Dot(ModelWeights, x.of, Len(ModelWeights)), LAMBDA n : PyTrueDiv(FromInt(n), FromInt(10)))

\* a variant of InputData with height and weight in each other's place
InputDataSwapped(w) == <<w.age, IF w.gender = "Female" THEN 0 ELSE 1, w.weight, w.height,
                         w.running_time, w.running_speed, w.distance, w.heart_rate>>

GenderCode(gender) == IF gender = "Female" THEN 0 ELSE 1

InputData(w) == <<w.age, GenderCode(w.gender), w.height, w.weight,
                  w.running_time, w.running_speed, w.distance, w.heart_rate>>

\* the arguments of the two calls and the value returned
predict_calories(w) ==
    Let(InputData(w),
        LAMBDA input_data :
          Let(ScalerTransform(input_data),
              LAMBDA input_scaled :
                [scaler_arg |-> input_data, model_arg |-> input_scaled,
                 calories_burned |-> ModelPredict(input_scaled)]))

BmiDivisor(height) == Let(PyTrueDiv(FromInt(height), FromInt(100)), LAMBDA h_m : PyMul(h_m, h_m))

calculate_bmi(height, weight) == PyTrueDiv(FromInt(weight), BmiDivisor(height))

MaxHeartRate(age) == 220 - age

calculate_workout_intensity(age, heart_rate) ==
    PyMul(PyTrueDiv(FromInt(heart_rate), FromInt(MaxHeartRate(age))), FromInt(100))

\* a variant of calculate_running_speed that leaves the minutes unconverted
running_speed_per_minute(distance, running_time) ==
    IF running_time > 0 THEN PyTrueDiv(FromInt(distance), FromInt(running_time)) ELSE FZero

\* a variant of calculate_running_speed without the test of running_time
running_speed_unguarded(distance, running_time) ==
    PyTrueDiv(FromInt(distance), PyTrueDiv(FromInt(running_time), FromInt(60)))

calculate_running_speed(distance, running_time) ==
    IF running_time > 0
    THEN PyTrueDiv(FromInt(distance), PyTrueDiv(FromInt(running_time), FromInt(60)))
    ELSE FZero

classify_bmi(bmi) ==
    IF FLt(bmi, FromHalves(37)) THEN "Underweight"
    ELSE IF FLe(FromHalves(37), bmi) /\ FLt(bmi, FromInt(25)) THEN "Normal"
    ELSE IF FLe(FromInt(25), bmi) /\ FLt(bmi, FromInt(30)) THEN "Overweight"
    ELSE "Obese"

\* a variant of provide_suggestions whose Normal band includes its upper end
provide_suggestions_inclusive(bmi) ==
    IF FLt(bmi, FromHalves(37)) THEN "Increase calorie intake and do strength training."
    ELSE IF FLe(bmi, FromInt(25)) THEN "Maintain current routine. Keep up the good work!"
    ELSE IF FLt(bmi, FromInt(30)) THEN "Incorporate more cardio and balanced diet."
    ELSE "Consult a healthcare provider for a tailored fitness plan."

provide_suggestions(bmi) ==
    IF FLt(bmi, FromHalves(37)) THEN "Increase calorie intake and do strength training."
    ELSE IF FLe(FromHalves(37), bmi) /\ FLt(bmi, FromInt(25))
         THEN "Maintain current routine. Keep up the good work!"
    ELSE IF FLe(FromInt(25), bmi) /\ FLt(bmi, FromInt(30))
         THEN "Incorporate more cardio and balanced diet."
    ELSE "Consult a healthcare provider for a tailored fitness plan."

\* a variant of progress that stops at 100
progress_capped(actual, goal) ==
    IF goal > 0
    THEN Let(PyMul(PyTrueDiv(actual, FromInt(goal)), FromInt(100)),
             LAMBDA p : IF FLt(FromInt(100), p) THEN FromInt(100) ELSE p)
    ELSE FZero

\* Track Progress: the same four lines for the calories pair and the steps pair
progress(actual, goal) ==
    IF goal > 0 THEN PyMul(PyTrueDiv(actual, FromInt(goal)), FromInt(100)) ELSE FZero

(***************************************************************************)
(* The state of a session.  Streamlit runs the whole script top to bottom  *)
(* on every interaction; pc is the block the current run is about to       *)
(* execute.                                                                 *)
(***************************************************************************)
VARIABLES
    widgets,      \* the sidebar values, kept by Streamlit across runs
    clicked,      \* the button whose click triggered the current run, or "none"
    models,       \* the files present in models/
    dataset,      \* calories_burned_data.csv on disk
    report_file,  \* fitness_report.pdf on disk
    clock,        \* the local clock, in seconds
    pc,           \* position of the current run in the script
    run,          \* the script's variables in the current run
    screen,       \* the elements the current run has put on the page, in order
    written,      \* history: the lines of the last report whose write succeeded
    ref,          \* history: what the last runs with the whole dataset produced
    focus,        \* the function a SpecMetrics behaviour applies, "script" under Spec
    memo          \* results of calls already evaluated; never changes

vars == <<widgets, clicked, models, dataset, report_file, clock, pc, run, screen,
          written, ref, focus, memo>>

\* the latest second modelled
MaxClock == 2

ModelFiles == <<"calories_model.pkl", "bmi_model.pkl", "heart_rate_model.pkl",
                "running_speed_model.pkl", "scaler.pkl">>

AllModels == {ModelFiles[i] : i \in 1..Len(ModelFiles)}

Columns == {"Calories Burned", "Weight(kg)", "Height(cm)", "Running Speed(km/h)",
            "Average Heart Rate"}

\* the file on disk: unreadable (absent, not a CSV), whole, or lacking one column
DatasetStates ==
    {[readable |-> FALSE, columns |-> {}],
     [readable |-> TRUE, columns |-> Columns],
     [readable |-> TRUE, columns |-> Columns \ {"Weight(kg)"}],
     [readable |-> TRUE, columns |-> Columns \ {"Calories Burned"}]}

\* the sidebar values a session moves between
WidgetChoices == [weight |-> {70, 90}]

Unset == [unset |-> TRUE]

EmptyRun ==
    [scaler_arg |-> <<>>, model_arg |-> Unset, calories_burned |-> Unset, bmi |-> Unset,
     intensity |-> Unset, speed |-> Unset, bmi_category |-> "", suggestion |-> "",
     calories_progress |-> Unset, steps_progress |-> Unset,
     df |-> [bound |-> FALSE, columns |-> {}]]

NoFile == [state |-> "absent", lines |-> <<>>]

\* a file opened for writing and not completed
TornFile == [state |-> "torn", lines |-> <<>>]

NoRef == [valid |-> FALSE, widgets |-> DefaultWidgets, run |-> EmptyRun]

NoRefReport == [valid |-> FALSE, widgets |-> DefaultWidgets, lines |-> <<>>]

(***************************************************************************)
(* Calls.  A call is <<function name, arguments...>>; Eval is its value.   *)
(* memo holds the values of calls evaluated beforehand, so that a run does *)
(* not evaluate the float arithmetic of a call again.                      *)
(***************************************************************************)
Value(call) ==
    CASE call[1] = "predict_calories" -> predict_calories(call[2])
      [] call[1] = "calculate_bmi" -> calculate_bmi(call[2], call[3])
      [] call[1] = "calculate_workout_intensity" -> calculate_workout_intensity(call[2], call[3])
      [] call[1] = "calculate_running_speed" -> calculate_running_speed(call[2], call[3])
      [] call[1] = "progress" -> progress(call[2], call[3])
      [] call[1] = "format" -> Fmt2(call[2])

Eval(call) == Let(call, Value)

Lookup(call) == IF call \in DOMAIN memo THEN memo[call] ELSE Value(call)

Call(call) == Let(call, Lookup)

\* the values of a set of calls, evaluated together
Results(calls) == [c \in calls |-> Call(c)]

\* f"{v:.2f}" for each v of a set of numbers, as the number of hundredths printed
Formatted(values) == [v \in values |-> Results({<<"format", x>> : x \in values})[<<"format", v>>]]

\* the calls one run of the script makes with sidebar values w
CallsOf(w) ==
    Let(Eval(<<"predict_calories", w>>).calories_burned,
        LAMBDA calories_burned :
          Let({<<"calculate_bmi", w.height, w.weight>>,
               <<"calculate_workout_intensity", w.age, w.heart_rate>>,
               <<"calculate_running_speed", w.distance, w.running_time>>,
               <<"progress", calories_burned, w.goal_calories>>,
               <<"progress", FromInt(w.steps_taken), w.goal_steps>>},
              LAMBDA calls :
                calls \cup {<<"predict_calories", w>>}
                      \cup {<<"format", Eval(c)>> : c \in calls}
                      \cup {<<"format", calories_burned>>, <<"format", FromInt(w.heart_rate)>>}))

SessionWidgets == {[DefaultWidgets EXCEPT !.weight = x] : x \in WidgetChoices.weight}

Evaluated(calls) == [c \in calls |-> Eval(c)]

(***************************************************************************)
(* Page elements and report lines.                                         *)
(***************************************************************************)
El(kind, label, value) == [kind |-> kind, label |-> label, value |-> value]

Shows(kind, label) == \E i \in 1..Len(screen) : screen[i].kind = kind /\ screen[i].label = label

RaisedAt(where) == \E i \in 1..Len(screen) : screen[i].kind = "exception" /\ screen[i].label = where

ReportCells(w, r, now, f) ==
    <<El("cell", "SMARTFIT AI - Fitness Report", <<>>),
      El("cell", "Date", <<now>>),
      El("cell", "------------------------------", <<>>),
      El("cell", "Age", <<w.age>>),
      El("cell", "Gender", <<w.gender>>),
      El("cell", "Height", <<w.height>>),
      El("cell", "Weight", <<w.weight>>),
      El("cell", "Calories Burned", <<f[r.calories_burned]>>),
      El("cell", "BMI", <<f[r.bmi], r.bmi_category>>),
      El("cell", "Workout Intensity", <<f[r.intensity]>>),
      El("cell", "Running Speed", <<f[r.speed]>>),
      El("cell", "Fitness Suggestion", <<r.suggestion>>)>>

ReportLines(w, r, now) ==
    Let(Formatted({r.calories_burned, r.bmi, r.intensity, r.speed}),
        LAMBDA f : ReportCells(w, r, now, f))

(***************************************************************************)
(* The script, block by block.                                             *)
(***************************************************************************)
Init ==
    /\ memo = Evaluated(UNION {CallsOf(w) : w \in SessionWidgets})
    /\ focus = "script"
    /\ widgets = DefaultWidgets
    /\ clicked = "none"
    /\ models \in {AllModels} \cup {AllModels \ {f} : f \in AllModels}
    /\ dataset \in DatasetStates
    /\ report_file = NoFile
    /\ clock = 0
    /\ pc = "load"
    /\ run = EmptyRun
    /\ screen = <<>>
    /\ written = <<>>
    /\ ref = [metrics |-> NoRef, report |-> NoRefReport]

disk == <<models, dataset, report_file>>

history == <<written, ref>>

\* an uncaught exception: Streamlit shows it under what the run has displayed so far
\* and the run ends
Halt(where, error) ==
    /\ screen' = Append(screen, El("exception", where, <<error>>))
    /\ pc' = "crashed"

\* the first file of the load sequence that is not there
FirstMissing == ModelFiles[CHOOSE i \in 1..Len(ModelFiles) :
                    /\ ModelFiles[i] \notin models
                    /\ \A j \in 1..(i - 1) : ModelFiles[j] \in models]

\* lines 13-17: five joblib.load calls, none guarded
LoadModels ==
    /\ focus = "script"
    /\ pc = "load"
    /\ IF AllModels \subseteq models
       THEN pc' = "metrics" /\ screen' = screen
       ELSE Halt("joblib.load", FirstMissing)
    /\ UNCHANGED <<widgets, clicked, disk, clock, run, history, focus, memo>>

\* the four calls of lines 90-93
MetricCalls(w) ==
    {<<"predict_calories", w>>,
     <<"calculate_bmi", w.height, w.weight>>,
     <<"calculate_workout_intensity", w.age, w.heart_rate>>,
     <<"calculate_running_speed", w.distance, w.running_time>>}

\* lines 88-95
ComputeMetrics ==
    /\ focus = "script"
    /\ pc = "metrics"
    /\ \E got \in {Results(MetricCalls(widgets))} :
       \E p \in {got[<<"predict_calories", widgets>>]},
          bmi \in {got[<<"calculate_bmi", widgets.height, widgets.weight>>]},
          intensity \in {got[<<"calculate_workout_intensity", widgets.age, widgets.heart_rate>>]},
          speed \in {got[<<"calculate_running_speed", widgets.distance, widgets.running_time>>]},
          title \in {Append(screen, El("title", "SMARTFIT AI - Personal Fitness Tracker", <<>>))} :
           IF IsRaised(bmi) \/ IsRaised(intensity) \/ IsRaised(speed)
           THEN /\ screen' = Append(title, El("exception", "metrics", <<"ZeroDivisionError">>))
                /\ pc' = "crashed"
                /\ run' = run
           ELSE /\ screen' = title
                /\ pc' = "display"
                /\ run' = [run EXCEPT !.scaler_arg = p.scaler_arg,
                                      !.model_arg = p.model_arg,
                                      !.calories_burned = p.calories_burned,
                                      !.bmi = bmi,
                                      !.intensity = intensity,
                                      !.speed = speed,
                                      !.bmi_category = classify_bmi(bmi),
                                      !.suggestion = provide_suggestions(bmi)]
    /\ UNCHANGED <<widgets, clicked, disk, clock, history, focus, memo>>

MetricWrites(r, f) ==
    <<El("subheader", "Your Fitness Metrics", <<>>),
      El("write", "Calories Burned", <<f[r.calories_burned]>>),
      El("write", "BMI", <<f[r.bmi], r.bmi_category>>),
      El("write", "Workout Intensity", <<f[r.intensity]>>),
      El("write", "Running Speed", <<f[r.speed]>>),
      El("write", "Fitness Suggestion", <<r.suggestion>>)>>

MetricLines(r) ==
    Let(Formatted({r.calories_burned, r.bmi, r.intensity, r.speed}),
        LAMBDA f : MetricWrites(r, f))

\* lines 97-102
DisplayMetrics ==
    /\ focus = "script"
    /\ pc = "display"
    /\ screen' = screen \o MetricLines(run)
    /\ pc' = "progress"
    /\ UNCHANGED <<widgets, clicked, disk, clock, run, history, focus, memo>>

ProgressWrites(r, f) ==
    <<El("subheader", "Progress", <<>>),
      El("write", "Calories Progress", <<f[r.calories_progress]>>),
      El("write", "Steps Progress", <<f[r.steps_progress]>>)>>

ProgressLines(r) ==
    Let(Formatted({r.calories_progress, r.steps_progress}), LAMBDA f : ProgressWrites(r, f))

\* lines 107-119
TrackProgress ==
    /\ focus = "script"
    /\ pc = "progress"
    /\ \E steps \in {FromInt(widgets.steps_taken)} :
       \E got \in {Results({<<"progress", run.calories_burned, widgets.goal_calories>>,
                            <<"progress", steps, widgets.goal_steps>>})} :
       \E cp \in {got[<<"progress", run.calories_burned, widgets.goal_calories>>]},
          sp \in {got[<<"progress", steps, widgets.goal_steps>>]} :
           IF IsRaised(cp) \/ IsRaised(sp)
           THEN Halt("progress", "ZeroDivisionError") /\ run' = run
           ELSE /\ run' = [run EXCEPT !.calories_progress = cp, !.steps_progress = sp]
                /\ screen' = screen \o ProgressLines(run')
                /\ pc' = "analysis"
    /\ UNCHANGED <<widgets, clicked, disk, clock, history, focus, memo>>

PlottingWarning == El("warning", "Dataset 'calories_burned_data.csv' not found for plotting.", <<>>)

\* lines 124-129: read_csv raises on an unreadable file and df stays unbound; on a
\* readable one df is bound and the subheader is out before the column is looked up
ShowDataAnalysis ==
    /\ focus = "script"
    /\ pc = "analysis"
    /\ IF ~dataset.readable
       THEN /\ run' = run
            /\ screen' = Append(screen, PlottingWarning)
       ELSE /\ run' = [run EXCEPT !.df = [bound |-> TRUE, columns |-> dataset.columns]]
            /\ screen' = Append(screen, El("subheader", "Calories Burned Distribution", <<>>))
                           \o <<IF "Calories Burned" \in dataset.columns
                                THEN El("bar_chart", "Calories Burned", <<>>)
                                ELSE PlottingWarning>>
    /\ pc' = "compare"
    /\ UNCHANGED <<widgets, clicked, disk, clock, history, focus, memo>>

ComparisonWarning == El("warning", "Dataset not available for comparison.", <<>>)

\* the dataset averages are whatever the file holds; a figure names the column it averages
ComparisonWrites(r, hr, f) ==
    <<El("subheader", "Comparison with Dataset Averages", <<>>),
      El("write", "Your Calories Burned", <<f[r.calories_burned], "mean Calories Burned">>),
      El("write", "Your BMI", <<f[r.bmi], "mean Weight(kg) / (Height(cm) / 100) ** 2">>),
      El("write", "Your Running Speed", <<f[r.speed], "mean Running Speed(km/h)">>),
      El("write", "Your Heart Rate", <<f[hr], "mean Average Heart Rate">>)>>

ComparisonLines(w, r) ==
    Let(FromInt(w.heart_rate),
        LAMBDA hr :
          Let(Formatted({r.calories_burned, r.bmi, r.speed, hr}),
              LAMBDA f : ComparisonWrites(r, hr, f)))

\* a variant of CompareWithDataset that displays each figure as soon as its average
\* is taken, and so has displayed some of them when a later column is missing
CompareWithDatasetPartial ==
    /\ focus = "script"
    /\ pc = "compare"
    /\ screen' = IF clicked # "compare" THEN screen
                 ELSE IF run.df.bound /\ Columns \subseteq run.df.columns
                      THEN screen \o ComparisonLines(widgets, run)
                      ELSE IF run.df.bound /\ "Calories Burned" \in run.df.columns
                           THEN screen \o SubSeq(ComparisonLines(widgets, run), 1, 2)
                                       \o <<ComparisonWarning>>
                           ELSE Append(screen, ComparisonWarning)
    /\ pc' = "report"
    /\ UNCHANGED <<widgets, clicked, disk, clock, run, history, focus, memo>>

\* lines 134-147: the four averages are taken before anything is displayed
CompareWithDataset ==
    /\ focus = "script"
    /\ pc = "compare"
    /\ screen' = IF clicked # "compare" THEN screen
                 ELSE IF run.df.bound /\ Columns \subseteq run.df.columns
                      THEN screen \o ComparisonLines(widgets, run)
                      ELSE Append(screen, ComparisonWarning)
    /\ pc' = "report"
    /\ UNCHANGED <<widgets, clicked, disk, clock, run, history, focus, memo>>

WholeDataset(r) == r.df.bound /\ r.df.columns = Columns

\* what a finished run leaves for later runs to be compared with
Remember(lines) ==
    ref' = [metrics |-> IF WholeDataset(run)
                        THEN [valid |-> TRUE, widgets |-> widgets, run |-> run]
                        ELSE ref.metrics,
            report  |-> IF WholeDataset(run) /\ lines # <<>>
                        THEN [valid |-> TRUE, widgets |-> widgets, lines |-> lines]
                        ELSE ref.report]

SuccessMessage == El("success", "PDF report generated as fitness_report.pdf", <<>>)

\* fpdf's output() opens the file for writing, which empties it, and then writes the
\* document: open can fail, and the write can fail after the open
WriteOutcomes == {"written", "open fails", "write fails"}

\* a variant of GenerateReport that announces the report before writing it
GenerateReportAnnouncedFirst ==
    /\ focus = "script"
    /\ pc = "report"
    /\ IF clicked # "report"
       THEN /\ pc' = "done"
            /\ Remember(<<>>)
            /\ UNCHANGED <<screen, report_file, written>>
       ELSE \E outcome \in WriteOutcomes :
            \E lines \in {ReportLines(widgets, run, clock)} :
                  IF outcome = "written"
                  THEN /\ report_file' = [state |-> "complete", lines |-> lines]
                       /\ written' = lines
                       /\ screen' = Append(screen, SuccessMessage)
                       /\ pc' = "done"
                       /\ Remember(lines)
                  ELSE /\ report_file' = IF outcome = "open fails" THEN report_file ELSE TornFile
                       /\ screen' = screen \o <<SuccessMessage, El("exception", "pdf.output", <<"OSError">>)>>
                       /\ pc' = "crashed"
                       /\ UNCHANGED <<written, ref>>
    /\ UNCHANGED <<widgets, clicked, models, dataset, clock, run, focus, memo>>

\* lines 152-169
GenerateReport ==
    /\ focus = "script"
    /\ pc = "report"
    /\ IF clicked # "report"
       THEN /\ pc' = "done"
            /\ Remember(<<>>)
            /\ UNCHANGED <<screen, report_file, written>>
       ELSE \E outcome \in WriteOutcomes :
            \E lines \in {ReportLines(widgets, run, clock)} :
                  IF outcome = "written"
                  THEN /\ report_file' = [state |-> "complete", lines |-> lines]
                       /\ written' = lines
                       /\ screen' = Append(screen, SuccessMessage)
                       /\ pc' = "done"
                       /\ Remember(lines)
                  ELSE /\ report_file' = IF outcome = "open fails" THEN report_file ELSE TornFile
                       /\ Halt("pdf.output", "OSError")
                       /\ UNCHANGED <<written, ref>>
    /\ UNCHANGED <<widgets, clicked, models, dataset, clock, run, focus, memo>>

(***************************************************************************)
(* Between runs: the user, the clock and the disk.                         *)
(***************************************************************************)
Idle == focus = "script" /\ pc \in {"done", "crashed"}

\* the sidebar is on the page once the models are loaded, the two buttons once the
\* script has passed both st.button calls
WidgetsShown == Idle /\ ~RaisedAt("joblib.load")

ButtonsShown == Idle /\ (pc = "done" \/ RaisedAt("pdf.output"))

ValidWidgets(w) == \A name \in WidgetNames : w[name] \in WidgetDomain[name]

\* any interaction starts the script again from the top
Rerun ==
    /\ pc' = "load"
    /\ run' = EmptyRun
    /\ screen' = <<>>

ChangeWidget ==
    /\ WidgetsShown
    /\ \E name \in DOMAIN WidgetChoices : \E v \in WidgetChoices[name] :
          /\ v # widgets[name]
          /\ widgets' = [widgets EXCEPT ![name] = v]
    /\ ValidWidgets(widgets')
    /\ clicked' = "none"
    /\ Rerun
    /\ UNCHANGED <<disk, clock, history, focus, memo>>

ClickButton ==
    /\ ButtonsShown
    /\ clicked' \in {"compare", "report"}
    /\ Rerun
    /\ UNCHANGED <<widgets, disk, clock, history, focus, memo>>

\* the user asks for a rerun from the menu: possible whatever the page shows
RerunFromMenu ==
    /\ Idle
    /\ clicked' = "none"
    /\ Rerun
    /\ UNCHANGED <<widgets, disk, clock, history, focus, memo>>

Tick ==
    /\ Idle
    /\ clock < MaxClock
    /\ clock' = clock + 1
    /\ UNCHANGED <<widgets, clicked, disk, pc, run, screen, history, focus, memo>>

DatasetChange ==
    /\ Idle
    /\ dataset' \in DatasetStates \ {dataset}
    /\ UNCHANGED <<widgets, clicked, models, report_file, clock, pc, run, screen, history,
                   focus, memo>>

Next ==
    \/ LoadModels
    \/ ComputeMetrics
    \/ DisplayMetrics
    \/ TrackProgress
    \/ ShowDataAnalysis
    \/ CompareWithDataset
    \/ GenerateReport
    \/ ChangeWidget
    \/ ClickButton
    \/ RerunFromMenu
    \/ Tick
    \/ DatasetChange

Spec == Init /\ [][Next]_vars

(***************************************************************************)
(* The functions on their own.  A SpecMetrics behaviour takes one function *)
(* of the script, inputs from the samples below (all inside the widgets'   *)
(* ranges), and applies it once.                                           *)
(***************************************************************************)
HeightSamples == {100, 120, 140, 150, 160, 170, 180, 200, 220, 240, 250}

WeightSamples == WidgetDomain.weight

AgeSamples == {10, 20, 25, 50, 90, 100}

HeartRateSamples == {50, 80, 110, 120, 121, 130, 131, 170, 171, 195, 196, 200}

DistanceSamples == {0, 1, 5, 11, 21, 50}

RunningTimeSamples == {0, 1, 11, 30, 45, 60, 90, 120}

RunningSpeedSamples == {0, 10, 40}

\* profiles that differ from one another in each of the eight features
ProfileSamples ==
    [age : {25, 60}, gender : {"Female", "Male"}, height : {170, 150}, weight : {70, 90},
     running_time : {30, 45}, running_speed : {10, 12}, distance : {5, 8},
     heart_rate : {80, 120}, goal_calories : {500}, goal_steps : {5000},
     steps_taken : {2000}]

\* the next float above v (v not the last of its binade)
NextAfter(v) == [m |-> BigAdd(v.m, <<1>>), e |-> v.e]

\* predictions: some in tenths, and two neighbouring floats, 250.0 and the next
CalorieTenths == {1, 2500, 3001, 5000, 6001}

CalorieSamples ==
    {PyTrueDiv(FromInt(t), FromInt(10)) : t \in CalorieTenths} \cup {NextAfter(FromInt(250))}

GoalCaloriesSamples == {0, 300, 500}

StepsTakenSamples == {0, 1, 11, 4999, 5000, 5001}

GoalStepsSamples == {0, 5, 5000}

Applying(f) ==
    /\ focus = f
    /\ ValidWidgets(widgets)
    /\ memo = <<>>
    /\ clicked = "none"
    /\ models = AllModels
    /\ dataset = [readable |-> TRUE, columns |-> Columns]
    /\ report_file = NoFile
    /\ clock = 0
    /\ pc = "call"
    /\ screen = <<>>
    /\ written = <<>>
    /\ ref = [metrics |-> NoRef, report |-> NoRefReport]

InitMetrics ==
    \/ /\ \E h \in HeightSamples, x \in WeightSamples :
            widgets = [DefaultWidgets EXCEPT !.height = h, !.weight = x]
       /\ Applying("calculate_bmi")
       /\ run = EmptyRun
    \/ /\ \E a \in AgeSamples, hr \in HeartRateSamples :
            widgets = [DefaultWidgets EXCEPT !.age = a, !.heart_rate = hr]
       /\ Applying("calculate_workout_intensity")
       /\ run = EmptyRun
    \/ /\ \E d \in DistanceSamples, t \in RunningTimeSamples, v \in RunningSpeedSamples :
            widgets = [DefaultWidgets EXCEPT !.distance = d, !.running_time = t,
                                             !.running_speed = v]
       /\ Applying("calculate_running_speed")
       /\ run = EmptyRun
    \/ /\ widgets \in ProfileSamples
       /\ Applying("predict_calories")
       /\ run = EmptyRun
    \/ /\ \E gc \in GoalCaloriesSamples, st \in StepsTakenSamples, gs \in GoalStepsSamples :
            widgets = [DefaultWidgets EXCEPT !.goal_calories = gc, !.steps_taken = st,
                                             !.goal_steps = gs]
       /\ Applying("progress")
       /\ \E c \in CalorieSamples : run = [EmptyRun EXCEPT !.calories_burned = c]

rest == <<widgets, clicked, disk, clock, screen, history, focus, memo>>

\* lines 91, 94, 95
ApplyBmi ==
    /\ focus = "calculate_bmi" /\ pc = "call"
    /\ \E bmi \in {calculate_bmi(widgets.height, widgets.weight)} :
         run' = IF IsRaised(bmi) THEN [run EXCEPT !.bmi = bmi]
                ELSE [run EXCEPT !.bmi = bmi,
                                 !.bmi_category = classify_bmi(bmi),
                                 !.suggestion = provide_suggestions(bmi)]
    /\ pc' = "returned"
    /\ UNCHANGED rest

\* line 92
ApplyIntensity ==
    /\ focus = "calculate_workout_intensity" /\ pc = "call"
    /\ run' = [run EXCEPT !.intensity = calculate_workout_intensity(widgets.age, widgets.heart_rate)]
    /\ pc' = "returned"
    /\ UNCHANGED rest

\* line 93
ApplySpeed ==
    /\ focus = "calculate_running_speed" /\ pc = "call"
    /\ run' = [run EXCEPT !.speed = calculate_running_speed(widgets.distance, widgets.running_time)]
    /\ pc' = "returned"
    /\ UNCHANGED rest

\* line 90
ApplyPredict ==
    /\ focus = "predict_calories" /\ pc = "call"
    /\ \E p \in {predict_calories(widgets)} :
         run' = [run EXCEPT !.scaler_arg = p.scaler_arg,
                            !.model_arg = p.model_arg,
                            !.calories_burned = p.calories_burned]
    /\ pc' = "returned"
    /\ UNCHANGED rest

\* lines 107-115
ApplyProgress ==
    /\ focus = "progress" /\ pc = "call"
    /\ run' = [run EXCEPT !.calories_progress = progress(run.calories_burned, widgets.goal_calories),
                          !.steps_progress = progress(FromInt(widgets.steps_taken), widgets.goal_steps)]
    /\ pc' = "returned"
    /\ UNCHANGED rest

NextMetrics ==
    \/ ApplyBmi
    \/ ApplyIntensity
    \/ ApplySpeed
    \/ ApplyPredict
    \/ ApplyProgress

SpecMetrics == InitMetrics /\ [][NextMetrics]_vars

Returned(f) == focus = f /\ pc = "returned"

(***************************************************************************)
(* Exact arithmetic for the statements about the functions.                *)
(***************************************************************************)
\* a and b differ by at most b * 2^-51
Within(a, b) ==
    Let(IF BigCmp(a, b) >= 0 THEN BigSub(a, b) ELSE BigSub(b, a),
        LAMBDA diff : Let(BigShl(diff, Precision - 2), LAMBDA scaled : BigCmp(scaled, b) <= 0))

Scaled(vd, n, ve, x, k) ==
    Let(BigShl(vd, ve - k), LAMBDA a : Let(BigShl(n, x - k), LAMBDA b : Within(a, b)))

\* the float v is the rational (n * 2^x) / d up to a relative error of 2^-51
Near(v, n, x, d) ==
    IF v.m = <<>> THEN n = <<>>
    ELSE Let(BigOf(d),
             LAMBDA bd :
               Let(BigMul(v.m, bd),
                   LAMBDA vd : Scaled(vd, n, v.e, x, IF v.e < x THEN v.e ELSE x)))

\* the band of weight / (height / 100)^2 in exact arithmetic
ExactBand(height, weight) ==
    IF 20000 * weight < 37 * height * height THEN "Underweight"
    ELSE IF 10000 * weight < 25 * height * height THEN "Normal"
    ELSE IF 10000 * weight < 30 * height * height THEN "Overweight"
    ELSE "Obese"

(***************************************************************************)
(* The claims.                                                             *)
(***************************************************************************)

\* C1 (as the spec states it): for every height and weight, classify_bmi returns the
\* band in which the exactly computed bmi = weight / (height/100)^2 lies, the values
\* 18.5, 25 and 30 themselves belonging to the higher band.
C1_ExactBands ==
    Returned("calculate_bmi") =>
        run.bmi_category = ExactBand(widgets.height, widgets.weight)

\* C2 (as the spec states it): progress is 0 for a goal of 0 and (actual/goal)*100 for
\* a goal > 0, above 100 when actual > goal, and for a fixed goal > 0 a larger actual
\* always yields a larger progress.
C2_StrictlyIncreasing ==
    Returned("progress") =>
        /\ widgets.goal_calories = 0 => run.calories_progress = FZero
        /\ widgets.goal_calories > 0 =>
             \A c \in CalorieSamples :
                FLt(c, run.calories_burned) =>
                    FLt(progress(c, widgets.goal_calories), run.calories_progress)

\* C2 (amended): for each pair on its own, progress is exactly 0 when the goal is 0;
\* when the goal is > 0 it is the float (actual / goal) * 100, within 2^-51 of the exact
\* value, above 100 when actual > goal; for a fixed goal > 0 a larger actual never
\* yields a smaller progress, one more step always yields a larger one, and the
\* value of a pair does not depend on the other pair.
C2_Progress ==
    Returned("progress") =>
        /\ widgets.goal_calories = 0 => run.calories_progress = FZero
        /\ widgets.goal_steps = 0 => run.steps_progress = FZero
        /\ widgets.goal_calories > 0 =>
             /\ run.calories_progress =
                   PyMul(PyTrueDiv(run.calories_burned, FromInt(widgets.goal_calories)), FromInt(100))
             /\ Near(run.calories_progress, BigMulSmall(run.calories_burned.m, 100),
                     run.calories_burned.e, widgets.goal_calories)
             /\ FLt(FromInt(widgets.goal_calories), run.calories_burned) =>
                   FLt(FromInt(100), run.calories_progress)
             /\ \A c \in CalorieSamples :
                   FLt(c, run.calories_burned) =>
                       FLe(progress(c, widgets.goal_calories), run.calories_progress)
        /\ widgets.goal_steps > 0 =>
             /\ run.steps_progress =
                   PyMul(PyTrueDiv(FromInt(widgets.steps_taken), FromInt(widgets.goal_steps)), FromInt(100))
             /\ Near(run.steps_progress, BigOf(100 * widgets.steps_taken), 0, widgets.goal_steps)
             /\ widgets.steps_taken > widgets.goal_steps => FLt(FromInt(100), run.steps_progress)
             /\ widgets.steps_taken > 0 =>
                   FLt(progress(FromInt(widgets.steps_taken - 1), widgets.goal_steps),
                       run.steps_progress)

\* C2 witness: no steps goal and a calories goal of 300, the prediction being the float
\* next to 250.0: the steps progress is 0 and the calories progress is not
C2_Witness ==
    /\ Returned("progress")
    /\ widgets.goal_steps = 0 /\ widgets.steps_taken > 0 /\ run.steps_progress = FZero
    /\ widgets.goal_calories = 300
    /\ run.calories_burned = NextAfter(FromInt(250))
    /\ FLt(FZero, run.calories_progress)

\* C3 (as the spec states it): the derived speed is 0 for a running time of 0 and
\* otherwise distance / (time/60), which is 60 * distance / time.
C3_SixtyTimes ==
    Returned("calculate_running_speed") =>
        run.speed = IF widgets.running_time = 0 THEN FZero
                    ELSE PyTrueDiv(FromInt(60 * widgets.distance), FromInt(widgets.running_time))

\* C3 (amended): the derived speed is exactly 0 for a running time of 0, whatever the
\* distance; otherwise it is the float distance / (time / 60), the division by 60 being
\* rounded first, which is within 2^-51 of 60 * distance / time and prints the same two
\* decimals; distance 5 and time 30 give exactly 10; the slider value plays no part.
C3_Speed ==
    Returned("calculate_running_speed") =>
        /\ widgets.running_time = 0 => run.speed = FZero
        /\ widgets.running_time > 0 =>
             /\ run.speed = PyTrueDiv(FromInt(widgets.distance),
                                      PyTrueDiv(FromInt(widgets.running_time), FromInt(60)))
             /\ Near(run.speed, BigOf(60 * widgets.distance), 0, widgets.running_time)
             /\ Let(run.speed, Fmt2) =
                   Let(PyTrueDiv(FromInt(60 * widgets.distance), FromInt(widgets.running_time)), Fmt2)
        /\ widgets.distance = 5 /\ widgets.running_time = 30 => run.speed = FromInt(10)

\* C3 witness: distance 11 in 11 minutes, with the slider at 40: a speed just above 60
C3_Witness ==
    /\ Returned("calculate_running_speed")
    /\ widgets.distance = 11 /\ widgets.running_time = 11 /\ widgets.running_speed = 40
    /\ FLt(FromInt(60), run.speed)
    /\ Let(run.speed, Fmt2) = 6000

\* the advisory string of each category
Advisory ==
    [Underweight |-> "Increase calorie intake and do strength training.",
     Normal      |-> "Maintain current routine. Keep up the good work!",
     Overweight  |-> "Incorporate more cardio and balanced diet.",
     Obese       |-> "Consult a healthcare provider for a tailored fitness plan."]

\* C4: the suggestion of a snapshot is the advisory string of the category of the same
\* snapshot, and the four strings are pairwise distinct.
C4_SuggestionOfCategory ==
    /\ Cardinality({Advisory[c] : c \in DOMAIN Advisory}) = 4
    /\ Returned("calculate_bmi") =>
          /\ run.bmi_category \in DOMAIN Advisory
          /\ run.suggestion = Advisory[run.bmi_category]

\* C4 witness: height 200 and weight 100, a bmi of exactly 25: Overweight and its string
C4_Witness ==
    /\ Returned("calculate_bmi")
    /\ widgets.height = 200 /\ widgets.weight = 100
    /\ run.bmi = FromInt(25)
    /\ run.bmi_category = "Overweight"
    /\ run.suggestion = Advisory.Overweight

\* C5: the normalizer is handed the 8 features in the order age, gender code (0 for
\* Female, 1 for Male), height, weight, running time, the running speed of the slider,
\* distance, heart rate; the model is handed the normalizer's output for that vector,
\* and calories_burned is the model's output for it.
C5_FeatureVector ==
    Returned("predict_calories") =>
        /\ Len(run.scaler_arg) = 8
        /\ run.scaler_arg = <<widgets.age, IF widgets.gender = "Male" THEN 1 ELSE 0,
                              widgets.height, widgets.weight, widgets.running_time,
                              widgets.running_speed, widgets.distance, widgets.heart_rate>>
        /\ widgets.gender = "Female" => run.scaler_arg[2] = 0
        /\ run.model_arg = ScalerTransform(run.scaler_arg)
        /\ run.model_arg.kind = "scaled"
        /\ run.calories_burned = ModelPredict(run.model_arg)

\* C5 witness: a Male profile with the slider at 12
C5_Witness ==
    /\ Returned("predict_calories")
    /\ widgets.gender = "Male" /\ run.scaler_arg[2] = 1
    /\ widgets.running_speed = 12 /\ run.scaler_arg[6] = 12
    /\ run.model_arg.of = run.scaler_arg

\* C10: inside the widgets' ranges no function divides by zero: 220 - age is at least
\* 120, (height/100)^2 is above 0, the speed and progress divisions are skipped for a
\* divisor of 0 and give 0; the intensity is heart_rate / (220 - age) * 100, uncapped,
\* above 100 when heart_rate > 220 - age.
C10_NoZeroDivision ==
    /\ Returned("calculate_bmi") =>
          /\ ~IsRaised(run.bmi)
          /\ FLt(FZero, BmiDivisor(widgets.height))
    /\ Returned("calculate_workout_intensity") =>
          /\ ~IsRaised(run.intensity)
          /\ MaxHeartRate(widgets.age) >= 120
          /\ Near(run.intensity, BigOf(100 * widgets.heart_rate), 0, MaxHeartRate(widgets.age))
          /\ widgets.heart_rate > MaxHeartRate(widgets.age) => FLt(FromInt(100), run.intensity)
    /\ Returned("calculate_running_speed") =>
          /\ ~IsRaised(run.speed)
          /\ widgets.running_time = 0 => run.speed = FZero
    /\ Returned("progress") =>
          /\ ~IsRaised(run.calories_progress) /\ ~IsRaised(run.steps_progress)
          /\ widgets.goal_calories = 0 => run.calories_progress = FZero
          /\ widgets.goal_steps = 0 => run.steps_progress = FZero
    /\ Returned("predict_calories") => ~IsRaised(run.calories_burned)

\* C10 witness: age 100 and heart rate 121: the divisor is 120 and the intensity is
\* above 100
C10_Witness ==
    /\ Returned("calculate_workout_intensity")
    /\ widgets.age = 100 /\ widgets.heart_rate = 121
    /\ MaxHeartRate(widgets.age) = 120
    /\ FLt(FromInt(100), run.intensity)

\* C6 (as the spec states it): once a report has been written, the file holds exactly
\* the report of the most recent cycle whose write succeeded.
C6_LastWrittenReport ==
    written # <<>> => report_file.state = "complete" /\ report_file.lines = written

\* what the run could do with the dataset it read
CanPlot(r) == r.df.bound /\ "Calories Burned" \in r.df.columns

AfterAnalysis == focus = "script" /\ (pc \in {"compare", "report", "done"} \/ RaisedAt("pdf.output"))

AfterCompare == focus = "script" /\ (pc \in {"report", "done"} \/ RaisedAt("pdf.output"))

ComparisonLabels == {"Comparison with Dataset Averages", "Your Calories Burned", "Your BMI",
                     "Your Running Speed", "Your Heart Rate"}

Snapshot(r) == [r EXCEPT !.df = EmptyRun.df]

Undated(lines) ==
    [i \in DOMAIN lines |-> IF lines[i].label = "Date" THEN El("cell", "Date", <<>>) ELSE lines[i]]

\* C7 (as the spec states it): with the dataset absent, unreadable or lacking a column,
\* the distribution display ends in a warning.
C7_AlwaysWarns ==
    AfterAnalysis /\ ~WholeDataset(run) => Shows("warning", PlottingWarning.label)

\* C7 (amended): the dataset never makes the run fail.  The distribution display ends
\* in its warning exactly when the file cannot be read or lacks the Calories Burned
\* column, and in the chart otherwise (also when another column is missing); a
\* requested comparison ends in its warning, with no figure displayed, exactly when the
\* file cannot be read or lacks any of the five columns; and the metrics, the progress
\* values and the report of such a run are those of a run with the same inputs and
\* the whole dataset, the report but for its Date line.
C7_DatasetDegraded ==
    /\ AfterAnalysis =>
          /\ Shows("warning", PlottingWarning.label) <=> ~CanPlot(run)
          /\ Shows("bar_chart", "Calories Burned") <=> CanPlot(run)
    /\ AfterCompare /\ clicked = "compare" =>
          /\ Shows("warning", ComparisonWarning.label) <=> ~WholeDataset(run)
          /\ ~WholeDataset(run) =>
                \A i \in 1..Len(screen) : screen[i].label \notin ComparisonLabels
          /\ WholeDataset(run) =>
                \A l \in ComparisonLabels : \E i \in 1..Len(screen) : screen[i].label = l
    /\ focus = "script" /\ AllModels \subseteq models =>
          \A i \in 1..Len(screen) : screen[i].kind = "exception" => screen[i].label = "pdf.output"
    /\ focus = "script" /\ pc = "done" /\ ~WholeDataset(run) =>
          /\ SubSeq(screen, 2, 7) = MetricLines(run)
          /\ SubSeq(screen, 8, 10) = ProgressLines(run)
          /\ ref.metrics.valid /\ ref.metrics.widgets = widgets =>
                Snapshot(run) = Snapshot(ref.metrics.run)
          /\ clicked = "report" =>
                /\ report_file.state = "complete"
                /\ ref.report.valid /\ ref.report.widgets = widgets =>
                      Undated(report_file.lines) = Undated(ref.report.lines)

\* C7 witness: a report generated with the dataset unreadable, after one generated
\* from the same inputs with the whole dataset, at another second
C7_Witness ==
    /\ focus = "script" /\ pc = "done" /\ clicked = "report"
    /\ ~run.df.bound
    /\ Shows("warning", PlottingWarning.label)
    /\ ref.report.valid /\ ref.report.widgets = widgets
    /\ report_file.state = "complete"
    /\ report_file.lines # ref.report.lines

\* C8: when the write of the report fails, the failure shown is that of the write and
\* not one of the metric computation, the success message is not shown, and the
\* metrics and progress of the run are on the page; the success message is shown only
\* after a write that succeeded.
C8_WriteFailure ==
    /\ focus = "script" /\ RaisedAt("pdf.output") =>
          /\ clicked = "report" /\ pc = "crashed"
          /\ screen[Len(screen)].kind = "exception" /\ screen[Len(screen)].label = "pdf.output"
          /\ ~RaisedAt("metrics") /\ ~RaisedAt("progress") /\ ~RaisedAt("joblib.load")
          /\ ~Shows("success", SuccessMessage.label)
          /\ SubSeq(screen, 2, 7) = MetricLines(run)
          /\ SubSeq(screen, 8, 10) = ProgressLines(run)
    /\ focus = "script" /\ Shows("success", SuccessMessage.label) =>
          /\ clicked = "report" /\ pc = "done"
          /\ screen[Len(screen)] = SuccessMessage
          /\ report_file.state = "complete" /\ report_file.lines = written
          /\ \E now \in 0..clock : report_file.lines = ReportLines(widgets, run, now)

\* C8 witness: the write failed after the file was opened
C8_Witness ==
    /\ focus = "script" /\ RaisedAt("pdf.output")
    /\ report_file = TornFile
    /\ Shows("write", "Steps Progress")
    /\ Shows("write", "Calories Burned")

\* C9 (as the spec states it): a run halts before any metric when the calorie model or
\* the scaler cannot be loaded, and reaches the display of the metrics whenever both
\* of them load, whatever else is missing.
C9_FatalTierOnly ==
    focus = "script" /\ pc \in {"done", "crashed"} =>
        IF {"calories_model.pkl", "scaler.pkl"} \subseteq models
        THEN Shows("subheader", "Your Fitness Metrics")
        ELSE Len(screen) = 1 /\ RaisedAt("joblib.load") /\ report_file = NoFile

=============================================================================
